---- MODULE Spec2Model ----
(***************************************************************************)
(* The relax frontend (python/tvm/relax/frontend.py): R2Transformer lowers *)
(* a synr AST into relax IR, reporting through TVMDiagnosticContext.       *)
(*                                                                         *)
(* AST and IR nodes are records tagged by "kind".  Python's None is the    *)
(* record None.  A python exception is the string held by the field/       *)
(* variable exc ("none" while no exception is propagating); once raised,   *)
(* nothing catches it, so every later step of the call is skipped.         *)
(***************************************************************************)
EXTENDS Integers, Sequences, FiniteSets, TLC

\* ------------------------------------------------------------------ bounds
\* statements in the parsed unit (summed over its functions)
MaxStmts == 3
\* arguments of a call expression
MaxArgs == 3
\* type parameters of an applied type annotation
MaxDims == 3
MaxCalls == 3

None == [kind |-> "None"]

\* ------------------------------------------------------------- AST (synr)
Var(n) == [kind |-> "Var", name |-> n]
Op(n) == [kind |-> "Op", name |-> n]
Call(f, ps) == [kind |-> "Call", func_name |-> f, params |-> ps]
Attr(o, fld) == [kind |-> "Attr", object |-> o, field |-> fld]
Tuple(vs) == [kind |-> "Tuple", values |-> vs]
Constant(v) == [kind |-> "Constant", value |-> v]
Assign(l, r) == [kind |-> "Assign", lhs |-> l, rhs |-> r]
Return(v) == [kind |-> "Return", value |-> v]
UnsupportedStmt == [kind |-> "UnsupportedStmt"]
TypeVar(n) == [kind |-> "TypeVar", name |-> n]
TypeApply(n, ps) == [kind |-> "TypeApply", name |-> n, params |-> ps]
TypeConstant(v) == [kind |-> "TypeConstant", value |-> v]
TypeTuple == [kind |-> "TypeTuple"]
Parameter(n, ty) == [kind |-> "Parameter", name |-> n, ty |-> ty]
\* a block read up to its last statement is whole; the unit is read a statement
\* at a time, and the block being read is not
Block(ss, whole) == [kind |-> "Block", stmts |-> ss, whole |-> whole]
FunctionDef(n, ps, body) == [kind |-> "Function", name |-> n, params |-> ps, body |-> body]

\* every AST node carries the span of its text; the parsed unit is one file
SourceFile == "a.py"
\* synr's Span(filename, start_line, start_column, end_line, end_column)
Span(filename, start_line, start_column, end_line, end_column) ==
    [filename |-> filename, start_line |-> start_line, start_column |-> start_column,
     end_line |-> end_line, end_column |-> end_column]

\* the span the parser gave a node of the decorated function's file
SpanOf(node) ==
    [filename |-> SourceFile, start_line |-> 1, start_column |-> 1,
     end_line |-> 1, end_column |-> 2, node |-> node]

\* --------------------------------------------------------------- relax IR
IRVar(n, ty, id) == [kind |-> "IRVar", name_hint |-> n, ty |-> ty, id |-> id]
GlobalVar(n) == [kind |-> "GlobalVar", name_hint |-> n]
IROp(n) == [kind |-> "IROp", name |-> n]
IRCall(f, args) == [kind |-> "IRCall", fn |-> f, args |-> args]
BroadcastShape(a, b) == [kind |-> "BroadcastShape", lhs |-> a, rhs |-> b]
Compute(a, b) == [kind |-> "Compute", lhs |-> a, rhs |-> b]
TensorSlice(t, idx) == [kind |-> "TensorSlice", tensor |-> t, slice |-> idx]
Add(a, b) == [kind |-> "Add", lhs |-> a, rhs |-> b]
ShapeOf(t) == [kind |-> "ShapeOf", tensor |-> t]
IRTuple(fs) == [kind |-> "IRTuple", fields |-> fs]
TIRExpr(e) == [kind |-> "TIRExpr", expr |-> e]
IntImm(dt, v) == [kind |-> "IntImm", dtype |-> dt, value |-> v]
Tensor(shape, dtype, span) == [kind |-> "Tensor", shape |-> shape, dtype |-> dtype, span |-> span]
\* tvm.ir.Span(source_name, line, end_line, column, end_column)
TVMSpan(source_name, line, end_line, column, end_column) ==
    [kind |-> "Span", source_name |-> source_name, line |-> line,
     end_line |-> end_line, column |-> column, end_column |-> end_column]
Binding(v, e) == [kind |-> "Binding", var |-> v, val |-> e]
Let(bs, body) == [kind |-> "Let", bindings |-> bs, body |-> body]
Function(n, ps, body) == [kind |-> "Function", name |-> n, params |-> ps, body |-> body]

\* ------------------------------------------------------------ environment
\* every name the parsed unit may use, as a variable, a function or a callee
Names == {"x", "y", "f", "g", "compute", "broadcast_shape", "add", "np"}

\* the function a sibling decoration lowered earlier, with variables of its own
SiblingFunction(n) ==
    Function(n, <<IRVar("a", None, 0)>>, Let(<<>>, IRVar("a", None, 0)))

\* RelaxDecoratedFn(fn_name, relax_module, diag_ctx): the object r2 leaves in
\* the defining python module under the function's name
RelaxDecoratedFn(n) ==
    [kind |-> "RelaxDecoratedFn", fn_name |-> n,
     module |-> [k \in Names |-> IF k = n THEN SiblingFunction(n) ELSE None]]

\* self.definition_scope: the attributes of the python module that holds the
\* decorated function; "f" and "compute" are earlier r2 functions, "np" is an
\* attribute that is no r2 function, the other names are no attributes
definition_scope ==
    [n \in Names |->
        IF n \in {"f", "compute"} THEN RelaxDecoratedFn(n)
        ELSE IF n = "np" THEN [kind |-> "PyModule"]
        ELSE None]

\* getattr(self.definition_scope, name, None)
getattr(scope, n) == scope[n]

\* op.Op.get(op_name): the registry's operator of that name
OpGet(op_name) == IROp(op_name)

\* ----------------------------------------------------- TVMDiagnosticContext
\* The state a lowering call works on, threaded through the calls below: the
\* transformer's fields (str_to_var, blocks, module), the diagnostic context's
\* (str_to_source_name, and tvm_diag_ctx as the events the reporting engine has
\* received), the exception that is propagating (exc), the number of Var
\* objects made so far (nvars, the identity of the next one), and what the
\* user of the pdb prompt does at a breakpoint (debugger).
Raise(self, e) == [self EXCEPT !.exc = e]

\* source_map.add(name, source): the source identifier the unit's source map
\* gives for the text it was handed under the name
SourceName(name, source) == [kind |-> "SourceName", name |-> name, source |-> source]

\* add_source that keeps the identifier a name was first registered with
add_source_keep_first(name, source, self) ==
    LET src_name == SourceName(name, source)
    IN  [self EXCEPT !.str_to_source_name[name] = IF @ = None THEN src_name ELSE @]

\* TVMDiagnosticContext.add_source
add_source(name, source, self) ==
    LET src_name == SourceName(name, source)
    IN  [self EXCEPT !.str_to_source_name[name] = src_name]

Diagnostic(level, span, message) ==
    [ev |-> "emit", level |-> level, span |-> span, message |-> message]

Rendered == [ev |-> "render"]

\* TVMDiagnosticContext.emit
emit(level, message, span, self) ==
    LET lvl == IF level = "error" THEN "ERROR"
               ELSE IF level = "bug" THEN "BUG"
               ELSE IF level = "warning" THEN "WARNING"
               ELSE "error"
    IN  IF span = None
        THEN Raise(self, "AssertionError")
        ELSE [self EXCEPT !.tvm_diag_ctx = Append(@, Diagnostic(lvl, span, message))]

\* the reporting engine's render: it aborts the compilation when a diagnostic
\* of error severity or above was recorded
RenderAborts(log) ==
    \E i \in 1..Len(log) : log[i].ev = "emit" /\ log[i].level \in {"ERROR", "BUG"}

\* TVMDiagnosticContext.render
render(self) ==
    LET s == [self EXCEPT !.tvm_diag_ctx = Append(@, Rendered)]
    IN  IF RenderAborts(s.tvm_diag_ctx) THEN Raise(s, "DiagnosticError") ELSE s

\* self._diagnostic_context.emit('error', message, span) followed by
\* self._diagnostic_context.render(): the frontend's error path
report(message, span, self) ==
    LET s == emit("error", message, span, self)
    IN  IF s.exc # "none" THEN s ELSE render(s)

\* what a lowering call hands back: its value and the state it leaves
Result(v, self) == [val |-> v, self |-> self]

Raised(r) == r.self.exc # "none"

\* ---------------------------------------------------------- R2Transformer
\* R2Transformer.span_to_span
span_to_span(span, self) ==
    IF self.str_to_source_name[span.filename] = None
    THEN Result(None, Raise(self, "KeyError"))
    ELSE Result(TVMSpan(self.str_to_source_name[span.filename], span.start_line,
                        span.end_line, span.start_column, span.end_column), self)

\* decl_var that keeps the variable a name already has in the table
decl_var_keep_first(name, ty, self) ==
    LET var == IRVar(name, ty, self.nvars + 1)
    IN  Result(var, [self EXCEPT
                       !.str_to_var[name] = IF @ = None THEN var ELSE @,
                       !.nvars = @ + 1])

\* R2Transformer.decl_var
decl_var(name, ty, self) ==
    LET var == IRVar(name, ty, self.nvars + 1)
    IN  Result(var, [self EXCEPT !.str_to_var[name] = var, !.nvars = @ + 1])

\* the dims loop of to_type: one dimension per TypeConstant parameter
RECURSIVE to_type_dims(_)
to_type_dims(params) ==
    IF params = <<>> THEN <<>>
    ELSE LET param == Head(params)
             rest == to_type_dims(Tail(params))
         IN  IF param.kind = "TypeConstant"
             THEN <<TIRExpr(IntImm("int32", param.value))>> \o rest
             ELSE rest

\* R2Transformer.to_type; at the breakpoint "continue" resumes and "quit"
\* raises BdbQuit
to_type(ty, self) ==
    IF ty = None THEN Result(None, self)
    ELSE IF ty.kind = "TypeVar" /\ ty.name = "Tensor"
    THEN LET span == span_to_span(SpanOf(ty), self)
         IN  IF Raised(span) THEN Result(None, span.self)
             ELSE Result(Tensor(None, None, span.val), self)
    ELSE IF ty.kind = "TypeApply" /\ ty.name = "Tensor"
    THEN Result(Tensor(IRTuple(to_type_dims(ty.params)), None, None), self)
    ELSE IF self.debugger = "quit" THEN Result(None, Raise(self, "BdbQuit"))
    ELSE Result(None, report("invalid type", SpanOf(ty), self))

\* R2Transformer.enter_block
enter_block(self) == [self EXCEPT !.blocks = Append(@, <<>>)]

\* R2Transformer.exit_block
exit_block(self) ==
    Result(self.blocks[Len(self.blocks)],
           [self EXCEPT !.blocks = SubSeq(@, 1, Len(@) - 1)])

\* Each operator below that continues after a nested lowering call takes that
\* call's result as its last parameter: the python statement sequence
\* "r = call(...); rest(r)" reads rest(..., call(...)).
RECURSIVE transform_expr(_, _)
RECURSIVE transform_exprs(_, _, _)
RECURSIVE transform_stmt(_, _)
RECURSIVE transform_stmts(_, _)
RECURSIVE transform_block(_, _)
RECURSIVE transform_function(_, _)

\* params.append(self.transform_expr(arg)), and on to the next argument
exprs_append(args, acc, arg) ==
    IF Raised(arg) THEN Result(<<>>, arg.self)
    ELSE transform_exprs(Tail(args), Append(acc, arg.val), arg.self)

\* the loops "for arg in ...: params.append(self.transform_expr(arg))": the
\* arguments are lowered left to right into acc, up to the first that raises
transform_exprs(args, acc, self) ==
    IF args = <<>> THEN Result(acc, self)
    ELSE exprs_append(args, acc, transform_expr(Head(args), self))

\* call_classify with the definition scope consulted before the scope table
call_classify_scope_first(exp, params) ==
    LET name == exp.func_name.name
        s == params.self
        relax_fn == getattr(definition_scope, name)
    IN  IF Raised(params) THEN Result(None, s)
        ELSE IF name = "broadcast_shape"
        THEN IF Len(params.val) # 2
             THEN Result(None, Raise(s, "AttributeError"))
             ELSE Result(BroadcastShape(params.val[1], params.val[2]), s)
        ELSE IF name = "compute"
        THEN IF Len(params.val) # 2
             THEN Result(None, Raise(s, "AttributeError"))
             ELSE Result(Compute(params.val[1], params.val[2]), s)
        ELSE IF relax_fn # None
        THEN IF relax_fn.kind # "RelaxDecoratedFn"
             THEN Result(None, Raise(s, "AttributeError"))
             ELSE Result(IRCall(GlobalVar(name), params.val),
                         [s EXCEPT !.module[name] = relax_fn.module[name]])
        ELSE IF s.str_to_var[name] # None
        THEN Result(s.str_to_var[name], s)
        ELSE Result(IRCall(OpGet(name), params.val), s)

\* a call whose callee is a plain name, once its arguments are lowered
call_classify(exp, params) ==
    LET name == exp.func_name.name
        s == params.self
    IN  IF Raised(params) THEN Result(None, s)
        ELSE IF name = "broadcast_shape"
        THEN IF Len(params.val) # 2
             \* the message calls params.len(), which a list does not have
             THEN Result(None, Raise(s, "AttributeError"))
             ELSE Result(BroadcastShape(params.val[1], params.val[2]), s)
        ELSE IF name = "compute"
        THEN IF Len(params.val) # 2
             THEN Result(None, Raise(s, "AttributeError"))
             ELSE Result(Compute(params.val[1], params.val[2]), s)
        ELSE IF s.str_to_var[name] # None
        THEN Result(s.str_to_var[name], s)
        ELSE LET relax_fn == getattr(definition_scope, name)
             IN  IF relax_fn = None
                 THEN Result(IRCall(OpGet(name), params.val), s)
                 ELSE IF relax_fn.kind # "RelaxDecoratedFn"
                 THEN Result(None, Raise(s, "AttributeError"))
                 ELSE IF relax_fn.module[name] = None
                 THEN Result(None, Raise(s, "KeyError"))
                 ELSE Result(IRCall(GlobalVar(name), params.val),
                             [s EXCEPT !.module[name] = relax_fn.module[name]])

\* the branch of transform_expr for a call whose callee is a plain name
transform_call(exp, self) ==
    call_classify(exp, transform_exprs(exp.params, <<>>, self))

\* return expr.TensorSlice(tensor, indicies, None)
subscript_slice(tensor, indicies) ==
    IF Raised(indicies) THEN Result(None, indicies.self)
    ELSE Result(TensorSlice(tensor.val, indicies.val), indicies.self)

\* the Subscript branch once the tensor is lowered: the loop over the indices
subscript_indicies(exp, tensor) ==
    IF Raised(tensor) THEN Result(None, tensor.self)
    ELSE subscript_slice(tensor, transform_exprs(exp.params[2].values, <<>>, tensor.self))

\* return expr.Add(params[0], params[1], None)
add_params(params) ==
    IF Raised(params) THEN Result(None, params.self)
    ELSE IF Len(params.val) < 2 THEN Result(None, Raise(params.self, "IndexError"))
    ELSE Result(Add(params.val[1], params.val[2]), params.self)

\* the branch of transform_expr for a call whose callee is a builtin operator;
\* an operator that is neither falls through to the "unsupported function" path
transform_op(exp, self) ==
    IF exp.func_name.name = "Subscript"
    THEN subscript_indicies(exp, transform_expr(exp.params[1], self))
    ELSE IF exp.func_name.name = "Add"
    THEN add_params(transform_exprs(exp.params, <<>>, self))
    ELSE Result(None, report("unsupported function", SpanOf(exp), self))

\* the Attr branch once the object is lowered
attr_field(exp, tensor) ==
    IF Raised(tensor) THEN Result(None, tensor.self)
    ELSE IF exp.field = "shape" THEN Result(ShapeOf(tensor.val), tensor.self)
    ELSE Result(None, report("unsupported function", SpanOf(exp), tensor.self))

\* R2Transformer.transform_expr
transform_expr(exp, self) ==
    IF exp.kind = "Call"
    THEN IF exp.func_name.kind = "Var" THEN transform_call(exp, self)
         ELSE IF exp.func_name.kind = "Op" THEN transform_op(exp, self)
         ELSE Result(None, report("unsupported function", SpanOf(exp), self))
    ELSE IF exp.kind = "Attr"
    THEN attr_field(exp, transform_expr(exp.object, self))
    ELSE IF exp.kind = "Function"
    THEN transform_function(exp, self)
    ELSE IF exp.kind = "Tuple"
    THEN Result(None, Raise(self, "AssertionError"))
    ELSE IF exp.kind = "Var"
    THEN IF self.str_to_var[exp.name] = None
         THEN Result(None, Raise(self, "KeyError"))
         ELSE Result(self.str_to_var[exp.name], self)
    ELSE Result(None, report("don't support this construct", SpanOf(exp), self))

\* self.blocks[-1].append(expr.Binding(lhs, rhs)); return None
assign_bind(lhs, rhs) ==
    IF Raised(rhs) THEN Result(None, rhs.self)
    ELSE Result(None,
           [rhs.self EXCEPT !.blocks[Len(rhs.self.blocks)] = Append(@, Binding(lhs, rhs.val))])

\* the Assign branch of transform_stmt: lhs = self.decl_var(...), then
\* rhs = self.transform_expr(stmt.rhs)
transform_assign(stmt, self) ==
    IF stmt.lhs.kind # "Var" THEN Result(None, Raise(self, "AssertionError"))
    ELSE LET lhs == decl_var(stmt.lhs.name, None, self)
         IN  assign_bind(lhs.val, transform_expr(stmt.rhs, lhs.self))

\* R2Transformer.transform_stmt
transform_stmt(stmt, self) ==
    IF stmt.kind = "Assign" THEN transform_assign(stmt, self)
    ELSE IF stmt.kind = "Return" THEN transform_expr(stmt.value, self)
    ELSE Result(None,
           report("only variable left-hand sides are supported in Relay",
                  SpanOf(stmt), self))

\* assert_none with the assertion left out
assert_none_unchecked(r) == r

\* assert ... is None
assert_none(r) ==
    IF Raised(r) THEN r
    ELSE IF r.val # None THEN Result(None, Raise(r.self, "AssertionError"))
    ELSE r

\* one turn of transform_block's loop over block.stmts[:-1]:
\* assert self.transform_stmt(stmt) is None
block_stmt(stmt, self) == assert_none(transform_stmt(stmt, self))

\* bindings = self.exit_block(); return expr.Let(bindings, ret_expr, span=None)
block_let(ret_expr) ==
    IF Raised(ret_expr) THEN Result(None, ret_expr.self)
    ELSE LET bindings == exit_block(ret_expr.self)
         IN  Result(Let(bindings.val, ret_expr.val), bindings.self)

\* the end of transform_block: ret_expr = self.transform_stmt(block.stmts[-1])
block_last(stmt, self) == block_let(transform_stmt(stmt, self))

stmts_next(stmts, r) ==
    IF Raised(r) THEN r ELSE transform_stmts(Tail(stmts), r.self)

\* transform_block's loop over block.stmts[:-1], up to the first that raises
transform_stmts(stmts, self) ==
    IF stmts = <<>> THEN Result(None, self)
    ELSE stmts_next(stmts, block_stmt(Head(stmts), self))

\* transform_block after its loop
block_end(block, init) ==
    IF Raised(init) THEN Result(None, init.self)
    \* block.stmts[-1] of an empty list
    ELSE IF block.stmts = <<>> THEN Result(None, Raise(init.self, "IndexError"))
    ELSE block_last(block.stmts[Len(block.stmts)], init.self)

\* R2Transformer.transform_block
transform_block(block, self) ==
    block_end(block,
              transform_stmts(SubSeq(block.stmts, 1, Len(block.stmts) - 1),
                              enter_block(self)))

\* transform_function's loop over func.params, collecting into acc
RECURSIVE transform_params(_, _, _)
transform_params(ps, acc, self) ==
    IF ps = <<>> THEN Result(acc, self)
    ELSE LET ty == to_type(Head(ps).ty, self)
         IN  IF Raised(ty) THEN Result(acc, ty.self)
             ELSE LET param == decl_var(Head(ps).name, ty.val, ty.self)
                  IN  transform_params(Tail(ps), Append(acc, param.val), param.self)

\* return expr.Function(func.name, params, new_body, None, None)
function_make(func, ps, new_body) ==
    IF Raised(new_body) THEN Result(None, new_body.self)
    ELSE Result(Function(func.name, ps, new_body.val), new_body.self)

\* transform_function after its loop: new_body = self.transform_block(func.body)
function_body(func, ps) ==
    IF Raised(ps) THEN Result(None, ps.self)
    ELSE function_make(func, ps.val, transform_block(func.body, ps.self))

\* R2Transformer.transform_function
transform_function(func, self) ==
    function_body(func, transform_params(func.params, <<>>, self))

\* ------------------------------------------------------------------ state
VARIABLES
    pc,                  \* where transform_module is: "module" (between two
                         \* functions), "block" (in a function's body),
                         \* "done" (returned), "raised" (left by an exception);
                         \* "call" and "returned" around a direct call
    mod,                 \* the functions of the parsed unit read so far, the
                         \* last one with the statements read so far (its
                         \* body is whole once its last statement is read)
    params,              \* transform_function's params
    ret_expr,            \* transform_block's ret_expr
    lowered,             \* what transform_function returned, per function
    str_to_var,          \* R2Transformer.str_to_var
    blocks,              \* R2Transformer.blocks
    module,              \* R2Transformer.module
    tvm_diag_ctx,        \* what the reporting engine has received
    str_to_source_name,  \* TVMDiagnosticContext.str_to_source_name
    exc,                 \* the exception that ended the call, or "none"
    nvars,               \* Var objects made so far
    arg,                 \* the argument of a direct call of to_type; the
                         \* direct calls made on the diagnostic context and
                         \* the span translator so far
    ret                  \* what the call returned

vars == <<pc, mod, params, ret_expr, lowered, str_to_var, blocks, module,
          tvm_diag_ctx, str_to_source_name, exc, nvars, arg, ret>>

\* the transformer and its diagnostic context as the record the lowering
\* operators work on
Self(debugger) ==
    [str_to_var |-> str_to_var, blocks |-> blocks, module |-> module,
     tvm_diag_ctx |-> tvm_diag_ctx, str_to_source_name |-> str_to_source_name,
     exc |-> exc, nvars |-> nvars, debugger |-> debugger]

Store(self) ==
    /\ str_to_var' = self.str_to_var
    /\ blocks' = self.blocks
    /\ module' = self.module
    /\ tvm_diag_ctx' = self.tvm_diag_ctx
    /\ str_to_source_name' = self.str_to_source_name
    /\ exc' = self.exc
    /\ nvars' = self.nvars

Debugger == {"continue", "quit"}

\* the files a span may name and the texts a file may be registered with;
\* SourceText is the text of the decorated function's file
Files == {SourceFile, "b.py"}
Sources == {"s1", "s2"}
SourceText == "s1"

\* R2Transformer.__init__ and TVMDiagnosticContext.__init__
InitTransformer ==
    /\ str_to_var = [n \in Names |-> None]
    /\ blocks = <<>>
    /\ module = [n \in Names |-> None]
    /\ tvm_diag_ctx = <<>>
    /\ exc = "none"
    /\ nvars = 0
    /\ mod = <<>>
    /\ params = <<>>
    /\ ret_expr = None
    /\ lowered = <<>>
    /\ ret = None

\* r2: the diagnostic context is made, synr.to_ast registers the file of the
\* decorated function, then the transformer is made and handed the AST
Init ==
    /\ InitTransformer
    /\ str_to_source_name =
         add_source(SourceFile, SourceText,
                    [str_to_source_name |-> [f \in Files |-> None]]).str_to_source_name
    /\ pc = "module"
    /\ arg = None

\* --------------------------------------------------------------- inputs
RECURSIVE SumLen(_)
SumLen(fs) == IF fs = <<>> THEN 0 ELSE Len(Head(fs).body.stmts) + SumLen(Tail(fs))

\* statements of the unit read so far
NStmts == SumLen(mod)

\* the function being lowered, and its statements read so far
Cur == mod[Len(mod)]
Stmts == Cur.body.stmts

Read(stmt, last) ==
    [mod EXCEPT ![Len(mod)].body = Block(Append(@.stmts, stmt), last)]

FuncNames == {"f", "g"}
VarNames == {"x", "y"}

\* the parameter lists of the functions of a unit
ParamLists ==
    {<<>>,
     <<Parameter("x", TypeVar("Tensor"))>>,
     <<Parameter("x", None),
       Parameter("y", TypeApply("Tensor", <<TypeConstant(2), TypeConstant(3)>>))>>,
     <<Parameter("x", TypeVar("int"))>>}

\* the expressions of a unit's statements
Exprs ==
    {Var(n) : n \in VarNames}
    \cup {Call(Var("f"), <<Var("x")>>), Attr(Var("x"), "shape"), Tuple(<<>>), Constant(1)}

\* the statements that assign to a name of L or return, over the expressions E
StmtsIn(L, E) ==
    {Assign(Var(n), e) : n \in L, e \in E}
    \cup {Assign(Attr(Var("x"), "shape"), Var("x"))}
    \cup {Return(e) : e \in E}
    \cup {UnsupportedStmt}

\* n arguments, alternately a and the other of x, y
ArgList(n, a) ==
    [i \in 1..n |-> IF i % 2 = 1 THEN Var(a) ELSE Var(IF a = "x" THEN "y" ELSE "x")]

ArgLists == {ArgList(n, a) : n \in 0..MaxArgs, a \in VarNames}

Callees == {"x", "f", "compute", "broadcast_shape", "add", "np"}

\* function literals: a body that rebinds and returns, one that returns
\* early, one without statements
Lambdas ==
    {FunctionDef("h", <<Parameter("y", TypeVar("Tensor"))>>, Block(ss, TRUE)) :
        ss \in {<<Assign(Var("x"), Var("y")), Return(Var("x"))>>,
                <<Return(Var("y")), Return(Var("y"))>>,
                <<>>}}

\* every shape of expression transform_expr tells apart
ExprsFull ==
    {Var(n) : n \in VarNames \cup {"f", "compute"}}
    \cup {Call(Var(c), args) : c \in Callees, args \in ArgLists}
    \cup {Call(Op(o), <<Var("x"), Var("y")>>) : o \in {"Add", "Sub"}}
    \cup {Call(Op("Subscript"), <<Var("x"), Tuple(<<Var("y"), Var("x")>>)>>),
          Call(Attr(Var("x"), "shape"), <<>>),
          Call(Var("add"), <<Call(Var("f"), <<Var("x")>>), Var("y")>>),
          Call(Var("compute"), <<Var("x"), Tuple(<<>>)>>),
          Attr(Var("x"), "shape"), Attr(Var("x"), "dtype"),
          Attr(Call(Var("f"), <<Var("y")>>), "shape"),
          Tuple(<<>>), Constant(1)}
    \cup Lambdas

\* parameter lists that bind x and y, and at most one name that is also an
\* intrinsic's or a sibling's
ParamListsExpr ==
    {<<Parameter("x", None), Parameter("y", None)>> \o extra :
        extra \in {<<>>} \cup {<<Parameter(n, None)>> : n \in {"f", "compute"}}}

\* type annotations
TypeParams == {TypeConstant(1), TypeConstant(2), TypeVar("n")}

RECURSIVE SeqsUpTo(_, _)
SeqsUpTo(S, n) ==
    IF n = 0 THEN {<<>>}
    ELSE LET shorter == SeqsUpTo(S, n - 1)
         IN  shorter \cup {Append(q, e) : q \in shorter, e \in S}

TypeInputs ==
    {None, TypeTuple}
    \cup {TypeVar(n) : n \in {"Tensor", "int"}}
    \cup {TypeApply(n, ps) : n \in {"Tensor", "List"}, ps \in SeqsUpTo(TypeParams, MaxDims)}

\* -------------------------------------------------------------- actions
\* transform_module's loop reaches the next function of mod.funcs (a dict:
\* its keys differ); transform_function declares the parameters and
\* transform_block enters the body's block
transform_function_enter(func_name, ps) ==
    /\ pc = "module"
    /\ NStmts < MaxStmts
    /\ \A i \in 1..Len(mod) : mod[i].name # func_name
    /\ \E debugger \in Debugger :
         LET r == transform_params(ps, <<>>, Self(debugger))
         IN  IF Raised(r)
             THEN /\ Store(r.self)
                  /\ pc' = "raised"
                  /\ params' = r.val
             ELSE /\ Store(enter_block(r.self))
                  /\ pc' = "block"
                  /\ params' = r.val
    /\ mod' = Append(mod, FunctionDef(func_name, ps, Block(<<>>, FALSE)))
    /\ ret_expr' = None
    /\ UNCHANGED <<lowered, arg, ret>>

\* one turn of transform_block's loop: a statement that is not the last
transform_block_stmt(stmt) ==
    /\ pc = "block"
    /\ NStmts + 1 < MaxStmts
    /\ \E debugger \in Debugger :
         LET r == block_stmt(stmt, Self(debugger))
         IN  /\ Store(r.self)
             /\ pc' = IF Raised(r) THEN "raised" ELSE "block"
    /\ mod' = Read(stmt, FALSE)
    /\ UNCHANGED <<params, ret_expr, lowered, arg, ret>>

\* the block's last statement: transform_block returns the Let,
\* transform_function the Function, and transform_module stores it
transform_block_last(stmt) ==
    /\ pc = "block"
    /\ NStmts < MaxStmts
    /\ \E debugger \in Debugger :
         LET r == block_last(stmt, Self(debugger))
             fn == Function(Cur.name, params, r.val)
         IN  IF Raised(r)
             THEN /\ Store(r.self)
                  /\ pc' = "raised"
                  /\ UNCHANGED <<ret_expr, lowered>>
             ELSE /\ Store([r.self EXCEPT !.module[Cur.name] = fn])
                  /\ pc' = "module"
                  /\ ret_expr' = r.val.body
                  /\ lowered' = Append(lowered, fn)
    /\ mod' = Read(stmt, TRUE)
    /\ UNCHANGED <<params, arg, ret>>

\* a body without statements: block.stmts[-1] raises
transform_block_empty ==
    /\ pc = "block"
    /\ Stmts = <<>>
    /\ pc' = "raised"
    /\ exc' = "IndexError"
    /\ mod' = [mod EXCEPT ![Len(mod)].body.whole = TRUE]
    /\ UNCHANGED <<params, ret_expr, lowered, str_to_var, blocks, module,
                   tvm_diag_ctx, str_to_source_name, nvars, arg, ret>>

\* mod.funcs is exhausted: return self.module
transform_module_return ==
    /\ pc = "module"
    /\ pc' = "done"
    /\ ret' = module
    /\ UNCHANGED <<mod, params, ret_expr, lowered, str_to_var, blocks, module,
                   tvm_diag_ctx, str_to_source_name, exc, nvars, arg>>

\* a direct call of to_type
to_type_call ==
    /\ pc = "call"
    /\ \E debugger \in Debugger :
         LET r == to_type(arg, Self(debugger))
         IN  /\ Store(r.self)
             /\ ret' = r.val
             /\ pc' = IF Raised(r) THEN "raised" ELSE "returned"
    /\ UNCHANGED <<mod, params, ret_expr, lowered, arg>>

\* a unit of functions named in FuncNames, of MaxStmts statements over Exprs
Next ==
    \/ \E func_name \in FuncNames, ps \in ParamLists :
         transform_function_enter(func_name, ps)
    \/ \E stmt \in StmtsIn(VarNames, Exprs) : transform_block_stmt(stmt)
    \/ \E stmt \in StmtsIn(VarNames, Exprs) : transform_block_last(stmt)
    \/ transform_block_empty
    \/ transform_module_return

Spec == Init /\ [][Next]_vars

\* a unit of one function g whose last statement ranges over ExprsFull
NextExpr ==
    \/ \E ps \in ParamListsExpr : transform_function_enter("g", ps)
    \/ \E stmt \in StmtsIn({"x", "f"}, {Var("y")}) : transform_block_stmt(stmt)
    \/ \E stmt \in StmtsIn({"y"}, ExprsFull) : transform_block_last(stmt)
    \/ transform_module_return

SpecExpr == Init /\ [][NextExpr]_vars

\* to_type called on one annotation, the annotation's file registered or not
InitToType ==
    /\ InitTransformer
    /\ str_to_source_name \in {[f \in Files |-> SourceName(f, SourceText)],
                               [f \in Files |-> None]}
    /\ pc = "call"
    /\ arg \in TypeInputs

NextToType == to_type_call

SpecToType == InitToType /\ [][NextToType]_vars

\* ------------------------------------------- direct calls on the sink
\* what a client of the diagnostic context and of the span translator passes
Levels == {"warning", "error", "bug", "info", "note"}
Spans == {Span("a.py", 1, 5, 2, 9), Span("b.py", 3, 1, 3, 4)}
Message == "message"

\* the client calls add_source
add_source_call(name, source) ==
    /\ pc = "sink"
    /\ Len(arg) < MaxCalls
    /\ Store(add_source(name, source, Self("continue")))
    /\ arg' = Append(arg, [op |-> "add_source", name |-> name, source |-> source])
    /\ ret' = None
    /\ UNCHANGED <<pc, mod, params, ret_expr, lowered>>

\* the client calls emit
emit_call(level, message, span) ==
    /\ pc = "sink"
    /\ Len(arg) < MaxCalls
    /\ LET s == emit(level, message, span, Self("continue"))
       IN  /\ Store(s)
           /\ pc' = IF s.exc # "none" THEN "raised" ELSE "sink"
    /\ arg' = Append(arg, [op |-> "emit", level |-> level, message |-> message,
                           span |-> span])
    /\ ret' = None
    /\ UNCHANGED <<mod, params, ret_expr, lowered>>

\* the client calls render
render_call ==
    /\ pc = "sink"
    /\ Len(arg) < MaxCalls
    /\ LET s == render(Self("continue"))
       IN  /\ Store(s)
           /\ pc' = IF s.exc # "none" THEN "raised" ELSE "sink"
    /\ arg' = Append(arg, [op |-> "render"])
    /\ ret' = None
    /\ UNCHANGED <<mod, params, ret_expr, lowered>>

\* the client calls span_to_span
span_to_span_call(span) ==
    /\ pc = "sink"
    /\ Len(arg) < MaxCalls
    /\ LET r == span_to_span(span, Self("continue"))
       IN  /\ Store(r.self)
           /\ ret' = r.val
           /\ pc' = IF Raised(r) THEN "raised" ELSE "sink"
    /\ arg' = Append(arg, [op |-> "span_to_span", span |-> span])
    /\ UNCHANGED <<mod, params, ret_expr, lowered>>

\* a diagnostic context as TVMDiagnosticContext.__init__ leaves it, no file
\* registered, and a transformer over it
InitSink ==
    /\ InitTransformer
    /\ str_to_source_name = [f \in Files |-> None]
    /\ pc = "sink"
    /\ arg = <<>>

\* up to MaxCalls calls, until one raises
NextSink ==
    \/ \E name \in Files, source \in Sources : add_source_call(name, source)
    \/ \E level \in Levels, span \in Spans \cup {None} : emit_call(level, Message, span)
    \/ render_call
    \/ \E span \in Spans : span_to_span_call(span)

SpecSink == InitSink /\ [][NextSink]_vars

\* ---------------------------------------------------------------- claims
\* the statement read last, and the expression it holds
LastStmt == Stmts[Len(Stmts)]
StmtExpr(stmt) ==
    IF stmt.kind = "Assign" THEN stmt.rhs
    ELSE IF stmt.kind = "Return" THEN stmt.value
    ELSE None

AssignsTo(stmt, n) == stmt.kind = "Assign" /\ stmt.lhs.kind = "Var" /\ stmt.lhs.name = n

\* the names func declares before its k-th statement
DeclaredBefore(func, k) ==
    {func.params[i].name : i \in 1..Len(func.params)}
    \cup {n \in Names : \E i \in 1..(k - 1) : AssignsTo(func.body.stmts[i], n)}

\* the names an expression refers to as variables
RECURSIVE FreeNames(_)
FreeNames(e) ==
    IF e.kind = "Var" THEN {e.name}
    ELSE IF e.kind = "Call"
    THEN UNION {FreeNames(e.params[i]) : i \in 1..Len(e.params)}
         \cup (IF e.func_name.kind \in {"Var", "Op"} THEN {} ELSE FreeNames(e.func_name))
    ELSE IF e.kind = "Attr" THEN FreeNames(e.object)
    ELSE IF e.kind = "Tuple" THEN UNION {FreeNames(e.values[i]) : i \in 1..Len(e.values)}
    ELSE {}

\* a function read whole whose body is assignments to names and a final
\* return, each referring only to names the function declared before
WellFormed(func) ==
    LET ss == func.body.stmts
    IN  /\ func.body.whole
        /\ ss # <<>>
        /\ \A i \in 1..Len(ss) :
              /\ IF i < Len(ss) THEN ss[i].kind = "Assign" /\ ss[i].lhs.kind = "Var"
                 ELSE ss[i].kind = "Return"
              /\ FreeNames(StmtExpr(ss[i])) \subseteq DeclaredBefore(func, i)

\* the function in progress has just read a statement that is a reference to a
\* name it has not declared (and that the statement itself does not assign)
UndeclaredReference ==
    /\ Len(mod) > 0
    /\ Stmts # <<>>
    /\ StmtExpr(LastStmt).kind = "Var"
    /\ StmtExpr(LastStmt).name \notin DeclaredBefore(Cur, Len(Stmts))
    /\ ~AssignsTo(LastStmt, StmtExpr(LastStmt).name)

\* C1: a reference to a name that the function being lowered has not declared,
\* as a parameter or by an earlier assignment, fails the lowering: no function
\* and no module come of it, also when an earlier function of the unit
\* declared the name (the earlier functions being well-formed ones).
C1_UndeclaredNameFails ==
    (UndeclaredReference /\ \A j \in 1..(Len(mod) - 1) : WellFormed(mod[j]))
    => pc = "raised" /\ Len(lowered) < Len(mod) /\ ret = None

\* the binding the statement lowered last has appended
NewBinding ==
    LET bindings == IF pc = "block" THEN blocks[Len(blocks)]
                    ELSE lowered[Len(lowered)].body.bindings
    IN  bindings[Len(bindings)]

\* C2: the right-hand side of an assignment is lowered before the left-hand
\* name is declared: the binding's value is what the right-hand side lowers to
\* in the scope table as it was before the statement, and the statement fails
\* when the right-hand side fails there.
C2_RhsLoweredBeforeLhsDeclared ==
    [][\A stmt \in StmtsIn(VarNames, Exprs) :
         (/\ pc = "block"
          /\ stmt.kind = "Assign" /\ stmt.lhs.kind = "Var"
          /\ mod' \in {Read(stmt, FALSE), Read(stmt, TRUE)})
         => LET rhs == transform_expr(stmt.rhs, Self("continue"))
            IN  IF Raised(rhs) THEN pc' = "raised"
                ELSE pc' # "raised" /\ NewBinding'.val = rhs.val]_vars

\* C3: transform_block returns a let-expression only for a block whose last
\* statement is a return, and the let-expression has a result expression.
C3_BlockEndsInReturn ==
    \A i \in 1..Len(lowered) :
        /\ mod[i].body.stmts[Len(mod[i].body.stmts)].kind = "Return"
        /\ lowered[i].body.body # None

\* the function in progress has read its whole body, which ends in the return
\* of a call of a plain name with variables bound in the scope table as its
\* arguments (so that lowering the arguments cannot fail)
ReturnsCallOf(names) ==
    /\ Len(mod) > 0
    /\ Cur.body.whole
    /\ Stmts # <<>>
    /\ LastStmt.kind = "Return"
    /\ LastStmt.value.kind = "Call"
    /\ LastStmt.value.func_name.kind = "Var"
    /\ LastStmt.value.func_name.name \in names
    /\ \A i \in 1..Len(LastStmt.value.params) :
          /\ LastStmt.value.params[i].kind = "Var"
          /\ str_to_var[LastStmt.value.params[i].name] # None

Callee == LastStmt.value.func_name.name

\* the names with an IR node of their own
Intrinsics == {"broadcast_shape", "compute"}

\* the returned call's arguments, lowered
LoweredArgs ==
    [i \in 1..Len(LastStmt.value.params) |-> str_to_var[LastStmt.value.params[i].name]]

\* C4: a call of a name that is no intrinsic and is bound in the scope table
\* lowers to a call expression of that local variable on the lowered
\* arguments, in their order.
C4_LocalCalleeIsCalled ==
    (ReturnsCallOf(Names \ Intrinsics) /\ str_to_var[Callee] # None)
    => /\ pc \in {"module", "done"}
       /\ ret_expr = IRCall(str_to_var[Callee], LoweredArgs)

\* the node an intrinsic's call of two arguments lowers to
IntrinsicNode(name, args) ==
    IF name = "broadcast_shape" THEN BroadcastShape(args[1], args[2])
    ELSE Compute(args[1], args[2])

\* C5: a call of broadcast_shape or compute with two arguments lowers to the
\* intrinsic's node on the lowered arguments in order; with any other number
\* of arguments the lowering fails, a diagnostic with the call's span has
\* been emitted, and no module is produced.
C5_IntrinsicArity ==
    ReturnsCallOf(Intrinsics)
    => IF Len(LastStmt.value.params) = 2
       THEN /\ pc \in {"module", "done"}
            /\ ret_expr = IntrinsicNode(Callee, LoweredArgs)
       ELSE /\ pc = "raised"
            /\ ret = None
            /\ \E i \in 1..Len(tvm_diag_ctx) :
                  /\ tvm_diag_ctx[i].ev = "emit"
                  /\ tvm_diag_ctx[i].span = SpanOf(LastStmt.value)

\* C6: a lowering that fails on the user's code has emitted exactly one
\* diagnostic, with a span, and rendered it right after; nothing else reached
\* the sink.  (An empty body and a quit at the debugger's prompt are not
\* failures of the user's code.)
C6_FailuresAreDiagnosed ==
    (pc = "raised" /\ exc \notin {"IndexError", "BdbQuit"})
    => /\ exc = "DiagnosticError"
       /\ Len(tvm_diag_ctx) = 2
       /\ tvm_diag_ctx[1].ev = "emit"
       /\ tvm_diag_ctx[1].span # None
       /\ tvm_diag_ctx[2].ev = "render"

\* to_type was called on Tensor[p1, ..., pn]
TensorApplied == pc # "call" /\ arg.kind = "TypeApply" /\ arg.name = "Tensor"

\* C7: to_type of Tensor[p1, ..., pn] returns the tensor type whose shape has
\* the n dimensions p1, ..., pn in order when every pi is an integer literal,
\* and otherwise emits a diagnostic and fails.
C7_TensorShapeKeepsEveryParameter ==
    TensorApplied
    => IF \A i \in 1..Len(arg.params) : arg.params[i].kind = "TypeConstant"
       THEN /\ pc = "returned"
            /\ ret = Tensor(IRTuple([i \in 1..Len(arg.params) |->
                                        TIRExpr(IntImm("int32", arg.params[i].value))]),
                            None, None)
       ELSE /\ pc = "raised"
            /\ \E i \in 1..Len(tvm_diag_ctx) : tvm_diag_ctx[i].ev = "emit"

DefinedNames == {mod[i].name : i \in 1..Len(mod)}

\* C8: the module transform_module returns for a unit of well-formed functions
\* maps the name of every function of the unit to the function lowered from
\* it, and every other key to the sibling of that name in the definition scope.
C8_ModuleHoldsEveryDefinition ==
    (pc = "done" /\ \A j \in 1..Len(mod) : WellFormed(mod[j]))
    => /\ \A i \in 1..Len(mod) : ret[mod[i].name] = lowered[i]
       /\ \A n \in Names \ DefinedNames :
             ret[n] # None
             => /\ definition_scope[n].kind = "RelaxDecoratedFn"
                /\ ret[n] = definition_scope[n].module[n]

\* the class the priority order gives a callee name
Classification(name) ==
    IF name \in Intrinsics THEN "intrinsic"
    ELSE IF str_to_var[name] # None THEN "local"
    ELSE IF definition_scope[name] # None THEN "sibling"
    ELSE "operator"

\* the class an IR expression shows its call was resolved to
Resolved(e) ==
    IF e.kind \in {"BroadcastShape", "Compute"} THEN "intrinsic"
    ELSE IF e.kind = "IRVar" THEN "local"
    ELSE IF e.kind = "IRCall" /\ e.fn.kind = "GlobalVar" THEN "sibling"
    ELSE IF e.kind = "IRCall" /\ e.fn.kind = "IROp" THEN "operator"
    ELSE "none"

\* the names the module holds besides the function lowered
Imported == {n \in Names \ DefinedNames : module[n] # None}

\* C9: a call that lowers is resolved by the priority intrinsic, local
\* variable, sibling of the definition scope, primitive operator, and a
\* sibling enters the module only when the call resolved to it.
C9_CallClassificationPriority ==
    (ReturnsCallOf(Names) /\ pc \in {"module", "done"})
    => /\ Resolved(ret_expr) = Classification(Callee)
       /\ Classification(Callee) = "intrinsic"
             => ret_expr = IntrinsicNode(Callee, LoweredArgs)
       /\ Imported = IF Classification(Callee) = "sibling" THEN {Callee} ELSE {}

\* a call of f, bound both as a parameter and as a sibling, went to the
\* parameter and imported nothing
C9_Witness ==
    /\ ReturnsCallOf({"f"})
    /\ pc = "module"
    /\ str_to_var["f"] # None
    /\ definition_scope["f"] # None
    /\ ret_expr = str_to_var["f"]
    /\ module["f"] = None

\* statement i of function j is a return that is not the last of its block
EarlyReturn(j, i) ==
    /\ mod[j].body.stmts[i].kind = "Return"
    /\ i < Len(mod[j].body.stmts) \/ ~mod[j].body.whole

\* C10: a return before the last statement of a block ends the lowering
\* there: it is the last statement read, of the last function read, and no
\* function and no module come of it.
C10_EarlyReturnAborts ==
    \A j \in 1..Len(mod) : \A i \in 1..Len(mod[j].body.stmts) :
        EarlyReturn(j, i)
        => /\ j = Len(mod)
           /\ i = Len(mod[j].body.stmts)
           /\ pc = "raised"
           /\ Len(lowered) < j
           /\ ret = None

\* an assignment was bound, then a return that is not the last statement
\* lowered its value and tripped the block's assertion
C10_Witness ==
    /\ Len(mod) > 0
    /\ Len(Stmts) >= 2
    /\ EarlyReturn(Len(mod), Len(Stmts))
    /\ exc = "AssertionError"
    /\ blocks # <<>>
    /\ blocks[Len(blocks)] # <<>>

\* the statements of func that are assignments, and the last assignment to n
\* before the k-th statement (0 when there is none)
AssignIndices(func) ==
    {k \in 1..Len(func.body.stmts) : func.body.stmts[k].kind = "Assign"}

RECURSIVE LastAssignBefore(_, _, _)
LastAssignBefore(func, n, k) ==
    IF k <= 1 THEN 0
    ELSE IF AssignsTo(func.body.stmts[k - 1], n) THEN k - 1
    ELSE LastAssignBefore(func, n, k - 1)

\* the name an expression of Exprs looks up, and the place of the looked-up
\* variable in the value the expression lowered to
LookupName(e) ==
    IF e.kind = "Var" THEN e.name
    ELSE IF e.kind = "Attr" /\ e.object.kind = "Var" THEN e.object.name
    ELSE IF e.kind = "Call" /\ Len(e.params) = 1 /\ e.params[1].kind = "Var"
    THEN e.params[1].name
    ELSE "none"

LookupVar(e, v) ==
    IF e.kind = "Var" THEN v
    ELSE IF e.kind = "Attr" /\ v.kind = "ShapeOf" THEN v.tensor
    ELSE IF e.kind = "Call" /\ v.kind = "IRCall" THEN v.args[1]
    ELSE None

\* the value the k-th statement of the i-th function lowered to
LoweredValue(i, k) ==
    IF mod[i].body.stmts[k].kind = "Assign"
    THEN lowered[i].body.bindings[k].val
    ELSE lowered[i].body.body

\* the identities of every variable of the lowered functions, parameters and
\* bindings, other than the j-th binding's of the i-th function
VarIdsExcept(i, j) ==
    UNION {{lowered[a].params[p].id : p \in 1..Len(lowered[a].params)}
           \cup {lowered[a].body.bindings[b].var.id :
                    b \in {c \in 1..Len(lowered[a].body.bindings) : a # i \/ c # j}} :
           a \in 1..Len(lowered)}

\* C11: a lowered block's let-expression has one binding per assignment
\* statement, in statement order, each with a variable made for it alone; a
\* name assigned twice keeps both bindings, and a lookup of the name in a
\* later statement (one that does not itself assign the name) resolves to
\* the variable of the most recent assignment before it
C11_BindingsFollowAssignments ==
    \A i \in 1..Len(lowered) :
        LET func == mod[i]
            bs == lowered[i].body.bindings
        IN  /\ Len(bs) = Cardinality(AssignIndices(func))
            /\ \A j \in 1..Len(bs) :
                  /\ AssignsTo(func.body.stmts[j], bs[j].var.name_hint)
                  /\ bs[j].var.id \notin VarIdsExcept(i, j)
            /\ \A k \in 1..Len(func.body.stmts) :
                  LET e == StmtExpr(func.body.stmts[k])
                      n == IF e = None THEN "none" ELSE LookupName(e)
                      j == LastAssignBefore(func, n, k)
                  IN  (n # "none" /\ j > 0 /\ ~AssignsTo(func.body.stmts[k], n))
                      => LookupVar(e, LoweredValue(i, k)) = bs[j].var

\* a function assigned one name twice with different values and returned it:
\* both bindings are in the let-expression and the result is the later one
C11_Witness ==
    \E i \in 1..Len(lowered) : \E n \in VarNames :
        LET ss == mod[i].body.stmts
            bs == lowered[i].body.bindings
        IN  /\ Len(ss) = 3
            /\ AssignsTo(ss[1], n)
            /\ AssignsTo(ss[2], n)
            /\ ss[3] = Return(Var(n))
            /\ Len(bs) = 2
            /\ bs[1].var # bs[2].var
            /\ lowered[i].body.body = bs[2].var

\* the call made last, the emit calls that carried a span, and the
\* diagnostics the reporting engine received
LastCall == arg[Len(arg)]
IsSpannedEmit(call) == call.op = "emit" /\ call.span # None
SpannedEmits == SelectSeq(arg, IsSpannedEmit)
IsDiagnostic(event) == event.ev = "emit"
Forwarded == SelectSeq(tvm_diag_ctx, IsDiagnostic)

\* the severity a level stands for: any level but warning and bug is an error
Severity(level) ==
    IF level = "warning" THEN "WARNING"
    ELSE IF level = "bug" THEN "BUG"
    ELSE "ERROR"

\* C12: every emit with a span forwards exactly one diagnostic, of severity
\* WARNING for "warning", ERROR for "error", BUG for "bug" and ERROR for any
\* other level; an emit with a null span fails and forwards nothing
C12_EmitSeverity ==
    /\ Len(Forwarded) = Len(SpannedEmits)
    /\ \A i \in 1..Len(Forwarded) :
          Forwarded[i] = Diagnostic(Severity(SpannedEmits[i].level),
                                    SpannedEmits[i].span, SpannedEmits[i].message)
    /\ (arg # <<>> /\ LastCall.op = "emit")
       => IF LastCall.span = None
          THEN pc = "raised" /\ exc = "AssertionError"
          ELSE pc = "sink" /\ exc = "none"

\* the text a file name was registered with most recently before the last
\* call, or "unregistered" when it never was
RECURSIVE RegisteredSource(_, _)
RegisteredSource(name, k) ==
    IF k = 0 THEN "unregistered"
    ELSE IF arg[k].op = "add_source" /\ arg[k].name = name THEN arg[k].source
    ELSE RegisteredSource(name, k - 1)

\* C13: span_to_span succeeds exactly when an earlier add_source registered
\* the span's file name; it returns a span with the source identifier of the
\* most recent registration of the name and the same line and column bounds;
\* for a name never registered it fails and returns no span
C13_SpanTranslationNeedsRegistration ==
    (arg # <<>> /\ LastCall.op = "span_to_span")
    => LET span == LastCall.span
           source == RegisteredSource(span.filename, Len(arg) - 1)
       IN  IF source = "unregistered"
           THEN pc = "raised" /\ exc # "none" /\ ret = None
           ELSE /\ pc = "sink"
                /\ exc = "none"
                /\ ret = [kind |-> "Span",
                          source_name |-> SourceName(span.filename, source),
                          line |-> span.start_line, end_line |-> span.end_line,
                          column |-> span.start_column,
                          end_column |-> span.end_column]

\* a file was registered twice with different texts, then a span in it was
\* translated and is anchored at the later registration
C13_Witness ==
    /\ Len(arg) = 3
    /\ arg[1].op = "add_source"
    /\ arg[2].op = "add_source"
    /\ arg[1].name = arg[2].name
    /\ arg[1].source # arg[2].source
    /\ LastCall.op = "span_to_span"
    /\ LastCall.span.filename = arg[2].name
    /\ ret # None
    /\ ret.source_name.source = arg[2].source
====
